---- MODULE Spec2Model ----
(***************************************************************************)
(* A model of dataforms/forms.py: key mangling, the Submission/Answer      *)
(* binder (BaseDataForm.is_valid / save, get_answers) and the              *)
(* collection/section composer (BaseCollection).                           *)
(*                                                                         *)
(* Form and field slugs and the keys made of them are sequences of         *)
(* one-character strings, so that formatting and splitting are computed    *)
(* and not assumed.                                                        *)
(***************************************************************************)
EXTENDS Integers, Sequences, FiniteSets, TLC

VARIABLES
    km,     \* key mangling: the slug pair under test and what the transforms returned
    col,    \* the BaseCollection: forms, sections, mask, section cursor, last call
    db,     \* the store: Submission, Answer, AnswerChoice, AnswerNumber, AnswerText rows
    frm,    \* the built forms: fields, cleaned_data, submission attribute
    log,    \* the last binder call: what was called, how it ended, what it returned
    conc,   \* two requests saving the same (Submission, Field, Form) answer
    call    \* get_answers or get_bindings on given rows: the rows and what it returned

vars == <<km, col, db, frm, log, conc, call>>

\* A variable a specification does not use holds Idle throughout.
Idle == [pc |-> "idle"]

(***************************************************************************)
(* Strings                                                                 *)
(***************************************************************************)

\* The characters slugs are written in here (a slug is [-a-zA-Z0-9_]+).
Chars == {"i", "d", "_", "-"}

\* s[a..b], empty when a > b.
Sub(s, a, b) == IF a > b THEN <<>> ELSE SubSeq(s, a, b)

\* Python's "d in s" for strings.
Contains(s, d) ==
    \E i \in 1..(Len(s) - Len(d) + 1) : Sub(s, i, i + Len(d) - 1) = d

\* The first position where d occurs in s, 0 when it does not.
Find(s, d) ==
    IF Contains(s, d)
    THEN CHOOSE i \in 1..(Len(s) - Len(d) + 1) :
            /\ Sub(s, i, i + Len(d) - 1) = d
            /\ \A j \in 1..(i - 1) : Sub(s, j, j + Len(d) - 1) # d
    ELSE 0

\* Python's s.split(d): the pieces between the occurrences of d, left to right.
RECURSIVE Split(_, _)
Split(s, d) ==
    LET i == Find(s, d)
    IN  IF i = 0
        THEN <<s>>
        ELSE <<Sub(s, 1, i - 1)>> \o Split(Sub(s, i + Len(d), Len(s)), d)

\* settings.FIELD_DELIMITER, as the docstrings of _field_for_form and
\* _field_for_db show it: "form-name--field-name".
FIELD_DELIMITER == <<"-", "-">>

\* The UI id prefix _field_for_db strips from the form name.
ID_PREFIX == <<"i", "d", "_">>

(***************************************************************************)
(* Key mangling                                                            *)
(***************************************************************************)

\* "%s%s%s" % (form, FIELD_DELIMITER, name)
_field_for_form_NoForm(name, form) == FIELD_DELIMITER \o name

_field_for_form(name, form) == form \o FIELD_DELIMITER \o name

\* What an index out of range raises.
IndexError == <<"IndexError">>

\* names[0][len("id_") if "id_" in names[0] else 0:]
StripId(s) == IF Contains(s, ID_PREFIX) THEN Sub(s, Len(ID_PREFIX) + 1, Len(s)) ELSE s

\* _field_for_db(name, packed_return): names[1], or (form name, names[1]).
_field_for_db(name, packed_return) ==
    LET names == Split(name, FIELD_DELIMITER)
    IN  IF Len(names) < 2
        THEN IndexError
        ELSE IF packed_return
             THEN <<StripId(names[1 + 0]), names[1 + 1]>>
             ELSE names[1 + 1]

\* Bounds of the slugs tried.
MaxFormSlugLen == 4
MaxFieldSlugLen == 2
MaxOtherSlugLen == 2

SeqsUpTo(n) == UNION {[1..k -> Chars] : k \in 1..n}

\* The slugs of at most n characters that do not contain the delimiter. Slugs
\* that begin or end with the delimiter's character are left out: joined to the
\* delimiter they would hide where the key was joined, and whether they do rests
\* on the delimiter having more than one character.
Slugs(n) ==
    {s \in SeqsUpTo(n) :
        /\ ~Contains(s, FIELD_DELIMITER)
        /\ s[1] # FIELD_DELIMITER[1]
        /\ s[Len(s)] # FIELD_DELIMITER[1]}

KeyInit ==
    \E s \in Slugs(MaxFormSlugLen), f \in Slugs(MaxFieldSlugLen) :
        km = [pc |-> "start", form |-> s, name |-> f]

\* Mangle the pair and take the key back apart, both ways.
Mangle ==
    /\ km.pc = "start"
    /\ LET key == _field_for_form(km.name, km.form)
       IN  km' = [pc |-> "done", form |-> km.form, name |-> km.name, key |-> key,
                  unpacked |-> _field_for_db(key, FALSE),
                  packed |-> _field_for_db(key, TRUE)]
    /\ UNCHANGED <<col, db, frm, log, conc, call>>

KeyNext == Mangle

KeySpecInit ==
    KeyInit /\ col = Idle /\ db = Idle /\ frm = Idle /\ log = Idle /\ conc = Idle /\ call = Idle

SpecKey == KeySpecInit /\ [][KeyNext]_vars

\* C5: for every form slug s and field slug f without the delimiter, unpacking
\* the mangled key gives back f, packed unpacking gives back (s, f), and no
\* other slug pair has the same mangled key.
C5_KeyManglingBijection ==
    km.pc = "done" =>
        /\ km.unpacked = km.name
        /\ km.packed = <<km.form, km.name>>
        /\ \A s2 \in Slugs(MaxOtherSlugLen), f2 \in Slugs(MaxOtherSlugLen) :
              <<s2, f2>> # <<km.form, km.name>> => _field_for_form(f2, s2) # km.key

(***************************************************************************)
(* Python values                                                           *)
(***************************************************************************)

None == [t |-> "none"]
Num(i) == [t |-> "num", v |-> i]
Str(x) == [t |-> "str", v |-> x]
Bool(b) == [t |-> "bool", v |-> b]
List(xs) == [t |-> "list", v |-> xs]

(***************************************************************************)
(* BaseCollection                                                          *)
(*                                                                         *)
(* A form of the collection is known by its 0-based position in            *)
(* self.forms; col.forms[i + 1] holds its section and whether its bound    *)
(* data passes validation.                                                 *)
(***************************************************************************)

\* Bounds of the collections tried.
MaxForms == 3

SectionSlugs == {"s1", "s2", "s3"}

\* create_collection: the sections in first-seen order, duplicates removed.
Dedup_KeepDuplicates(non_unique_sections) == non_unique_sections

RECURSIVE Dedup(_)
Dedup(non_unique_sections) ==
    IF non_unique_sections = <<>>
    THEN <<>>
    ELSE LET rest == Dedup(Sub(non_unique_sections, 1, Len(non_unique_sections) - 1))
             section == non_unique_sections[Len(non_unique_sections)]
         IN  IF \E i \in 1..Len(rest) : rest[i] = section
             THEN rest
             ELSE Append(rest, section)

\* set_section: the mask, one truth value per form. section is None or Str(slug).
FormExistence_AllVisible(forms, section) == [i \in 1..Len(forms) |-> TRUE]

FormExistence(forms, section) ==
    IF section = None
    THEN [i \in 1..Len(forms) |-> TRUE]
    ELSE [i \in 1..Len(forms) |-> forms[i].section = section.v]

\* [row.slug for row in self.sections].index(section): 0-based, -1 when absent
\* (Python raises ValueError).
IndexOf_Last(sections, slug) == Len(sections) - 1

IndexOf(sections, slug) ==
    IF \E i \in 1..Len(sections) : sections[i] = slug
    THEN (CHOOSE i \in 1..Len(sections) :
            /\ sections[i] = slug
            /\ \A j \in 1..(i - 1) : sections[j] # slug) - 1
    ELSE 0 - 1

\* set_section(section) on collection c: the collection afterwards and what was
\* raised ("" when nothing was).
SetSectionOn(c, section) ==
    LET mask == FormExistence(c.forms, section)
        masked == [c EXCEPT !.form_existence = mask]
        idx == IF section # None THEN IndexOf(c.sections, section.v) ELSE 0
        nxt == IF idx + 1 < Len(c.sections) THEN Num(idx + 1) ELSE None
        prv == IF idx - 1 >= 0 THEN Num(idx - 1) ELSE None
    IN  IF \A i \in 1..Len(mask) : ~mask[i]
        THEN [c |-> masked, raised |-> "SectionDoesNotExist"]
        ELSE IF idx < 0
        THEN [c |-> masked, raised |-> "ValueError"]
        ELSE IF idx >= Len(c.sections)
        THEN [c |-> [masked EXCEPT !._section = idx, !._next_section = nxt,
                                   !._prev_section = prv],
              raised |-> "IndexError"]
        ELSE [c |-> [masked EXCEPT
                        !._section = idx, !._next_section = nxt, !._prev_section = prv,
                        !.section = Str(c.sections[idx + 1]),
                        !.next_section =
                            IF nxt # None THEN Str(c.sections[nxt.v + 1]) ELSE None,
                        !.prev_section =
                            IF prv # None THEN Str(c.sections[prv.v + 1]) ELSE None],
              raised |-> ""]

\* __getitem__'s loop from position i with fake_index = fake: the position of
\* the form returned, or -1 when self.__form_existence[i] runs out of range.
RECURSIVE GetItemFrom_OffByOne(_, _, _, _)
GetItemFrom_OffByOne(mask, arg, i, fake) ==
    IF i >= Len(mask)
    THEN 0 - 1
    ELSE LET f == IF mask[i + 1] THEN fake + 1 ELSE fake
         IN  IF f = arg + 1 THEN i ELSE GetItemFrom_OffByOne(mask, arg, i + 1, f)

RECURSIVE GetItemFrom(_, _, _, _)
GetItemFrom(mask, arg, i, fake) ==
    IF i >= Len(mask)
    THEN 0 - 1
    ELSE LET f == IF mask[i + 1] THEN fake + 1 ELSE fake
         IN  IF f = arg THEN i ELSE GetItemFrom(mask, arg, i + 1, f)

\* collection[arg]: [raised, ret].
GetItem(c, arg) ==
    LET i == GetItemFrom(c.form_existence, arg, 0, 0 - 1)
    IN  IF i < 0
        THEN [raised |-> "IndexError", ret |-> 0 - 1]
        ELSE [raised |-> "", ret |-> i]

\* len(collection)
CollectionLen(c) == Cardinality({i \in 1..Len(c.form_existence) : c.form_existence[i]})

\* "for form in self": the forms collection[0], collection[1], ... until
\* IndexError, as their positions.
RECURSIVE IterFrom(_, _)
IterFrom(c, n) ==
    LET r == GetItem(c, n)
    IN  IF r.raised # "" THEN <<>> ELSE <<r.ret>> \o IterFrom(c, n + 1)

Iterate(c) == IterFrom(c, 0)

\* BaseCollection.is_valid over the forms still to visit: the positions of the
\* forms whose is_valid() ran, and the value returned.
RECURSIVE IsValidLoop(_, _, _)
IsValidLoop(c, todo, ran) ==
    IF todo = <<>>
    THEN [ran |-> ran, ret |-> TRUE]
    ELSE IF ~c.forms[todo[1] + 1].valid
         THEN [ran |-> ran \cup {todo[1]}, ret |-> FALSE]
         ELSE IsValidLoop(c, Tail(todo), ran \cup {todo[1]})

NoCall == [op |-> "init", sarg |-> None, iarg |-> 0, raised |-> "", ret |-> 0, ran |-> {}]

\* create_collection then BaseCollection.__init__: the forms in order, each
\* tagged with its section; the sections deduplicated; set_section() called.
ColInit ==
    \E n \in 1..MaxForms :
        \E tags \in [1..n -> SectionSlugs], valid \in [1..n -> BOOLEAN] :
            LET forms == [i \in 1..n |-> [section |-> tags[i], valid |-> valid[i],
                                          validated |-> FALSE]]
                blank == [forms |-> forms, sections |-> Dedup(tags),
                          form_existence |-> <<>>,
                          _section |-> 0, _next_section |-> None, _prev_section |-> None,
                          section |-> None, next_section |-> None, prev_section |-> None,
                          last |-> NoCall]
            IN  col = SetSectionOn(blank, None).c

\* collection.set_section(section), section a slug or None.
SetSection(section) ==
    /\ LET r == SetSectionOn(col, section)
       IN  col' = [r.c EXCEPT !.last = [NoCall EXCEPT !.op = "set_section",
                                           !.sarg = section, !.raised = r.raised]]
    /\ UNCHANGED <<km, db, frm, log, conc, call>>

\* collection[arg]
GetItemCall(arg) ==
    /\ LET r == GetItem(col, arg)
       IN  col' = [col EXCEPT !.last = [NoCall EXCEPT !.op = "getitem", !.iarg = arg,
                                          !.raised = r.raised, !.ret = r.ret]]
    /\ UNCHANGED <<km, db, frm, log, conc, call>>

\* collection.is_valid(): each form visited has its is_valid() run, which
\* leaves its errors on the form.
CollectionIsValid ==
    /\ LET r == IsValidLoop(col, Iterate(col), {})
       IN  col' = [col EXCEPT
                    !.forms = [i \in 1..Len(col.forms) |->
                                 IF (i - 1) \in r.ran
                                 THEN [col.forms[i] EXCEPT !.validated = TRUE]
                                 ELSE col.forms[i]],
                    !.last = [NoCall EXCEPT !.op = "is_valid", !.ran = r.ran,
                                !.ret = IF r.ret THEN 1 ELSE 0]]
    /\ UNCHANGED <<km, db, frm, log, conc, call>>

ColNext ==
    \/ \E section \in {None} \cup {Str(x) : x \in SectionSlugs} : SetSection(section)
    \/ \E arg \in (0 - 2)..(MaxForms + 1) : GetItemCall(arg)
    \/ CollectionIsValid

ColSpecInit ==
    ColInit /\ km = Idle /\ db = Idle /\ frm = Idle /\ log = Idle /\ conc = Idle /\ call = Idle

SpecColl == ColSpecInit /\ [][ColNext]_vars

\* The positions of the forms visible under the mask, in collection order.
VisiblePositions(c) ==
    LET pos == [i \in 1..Len(c.forms) |-> i - 1]
    IN  SelectSeq(pos, LAMBDA p : c.form_existence[p + 1])

\* The number of forms tagged with section (all of them for None).
Tagged(c, section) ==
    IF section = None
    THEN Len(c.forms)
    ELSE Cardinality({i \in 1..Len(c.forms) : c.forms[i].section = section.v})

\* C6: after set_section(S) the length of the collection is the number of forms
\* tagged S (all forms for None), and SectionDoesNotExist is raised exactly when
\* that number is zero.
C6_SectionMasking ==
    col.last.op = "set_section" =>
        /\ CollectionLen(col) = Tagged(col, col.last.sarg)
        /\ (col.last.raised = "SectionDoesNotExist") <=> (Tagged(col, col.last.sarg) = 0)

\* A section that tags some but not all forms was selected.
C6_Witness ==
    /\ col.last.op = "set_section"
    /\ col.last.sarg # None
    /\ col.last.raised = ""
    /\ CollectionLen(col) = 1
    /\ Len(col.forms) = 3

\* C7: collection[i] for 0 <= i < len(collection) is the i-th visible form in
\* collection order; for i >= len(collection) it raises IndexError.
C7_IndexingHonorsMask ==
    (col.last.op = "getitem" /\ col.last.iarg >= 0) =>
        IF col.last.iarg < CollectionLen(col)
        THEN /\ col.last.raised = ""
             /\ col.last.ret = VisiblePositions(col)[col.last.iarg + 1]
        ELSE col.last.raised = "IndexError"

\* Under a mask that hides the first form, collection[1] returned the third form.
C7_Witness ==
    /\ col.last.op = "getitem"
    /\ col.last.iarg = 1
    /\ col.last.ret = 2
    /\ col.form_existence = <<FALSE, TRUE, TRUE>>

\* C8: when the collection's is_valid() returns, is_valid() has run on every
\* visible form, also on those after the first invalid one.
C8_ValidatesEveryVisibleForm ==
    col.last.op = "is_valid" =>
        col.last.ran = {VisiblePositions(col)[i] : i \in 1..CollectionLen(col)}

\* C17: after a set_section(S) that succeeded, with S at position i of the
\* collection's sections, the current section is sections[i], next_section is
\* sections[i+1], or None at the last position, and prev_section is
\* sections[i-1], or None at the first; after set_section(None) the current
\* section is the first one, prev_section is None and every form is visible.
C17_SectionCursor ==
    (col.last.op = "set_section" /\ col.last.raised = "") =>
        LET n == Len(col.sections)
        IN  IF col.last.sarg = None
            THEN /\ col.section = Str(col.sections[1])
                 /\ col.prev_section = None
                 /\ \A i \in 1..Len(col.forms) : col.form_existence[i]
            ELSE /\ \E i \in 1..n : col.sections[i] = col.last.sarg.v
                 /\ \A i \in 1..n :
                       col.sections[i] = col.last.sarg.v =>
                           /\ col.section = Str(col.sections[i])
                           /\ col.next_section =
                                 IF i < n THEN Str(col.sections[i + 1]) ELSE None
                           /\ col.prev_section =
                                 IF i > 1 THEN Str(col.sections[i - 1]) ELSE None

\* The middle one of three sections was selected: both neighbours are set.
C17_Witness ==
    /\ col.last.op = "set_section"
    /\ col.last.raised = ""
    /\ Len(col.sections) = 3
    /\ col.last.sarg = Str(col.sections[2])
    /\ col.next_section # None
    /\ col.prev_section # None

\* C20: the sections of the built collection are the distinct sections of the
\* rows the query gave (one per form of the collection, in the forms' order),
\* each once, in the order of their first rows.
C20_DedupFirstSeen ==
    LET rows == [i \in 1..Len(col.forms) |-> col.forms[i].section]
        First(x) == CHOOSE i \in 1..Len(rows) :
                        rows[i] = x /\ \A j \in 1..(i - 1) : rows[j] # x
        n == Len(col.sections)
    IN  /\ {col.sections[i] : i \in 1..n} = {rows[i] : i \in 1..Len(rows)}
        /\ \A i \in 1..n, j \in 1..n :
              i < j => /\ col.sections[i] # col.sections[j]
                       /\ First(col.sections[i]) < First(col.sections[j])

\* The query gave a section twice, with another one in between.
C20_Witness ==
    /\ Len(col.forms) = 3
    /\ col.forms[1].section = col.forms[3].section
    /\ col.forms[1].section # col.forms[2].section
    /\ col.sections = <<col.forms[1].section, col.forms[2].section>>

\* C21: a set_section that raises SectionDoesNotExist leaves the mask, and with
\* it the length and the forms indexing returns, and the current, next and
\* previous section as they were before the call.
C21_FailedSelectionChangesNothing ==
    [][(col'.last.op = "set_section" /\ col'.last.raised = "SectionDoesNotExist") =>
            /\ col'.form_existence = col.form_existence
            /\ CollectionLen(col') = CollectionLen(col)
            /\ Iterate(col') = Iterate(col)
            /\ col'.section = col.section
            /\ col'.next_section = col.next_section
            /\ col'.prev_section = col.prev_section]_vars

\* C22: collection[index], for every integer index and every mask, returns a
\* form that is visible under the mask or fails, and iterating the collection
\* gives exactly the visible forms in their order.
C22_NeverExposesHiddenForm ==
    /\ (col.last.op = "getitem" /\ col.last.raised = "") =>
            col.form_existence[col.last.ret + 1]
    /\ Iterate(col) = VisiblePositions(col)

(***************************************************************************)
(* The schema: Field, Choice, FieldChoice and DataForm rows                *)
(***************************************************************************)

\* settings: the classification of the field type tags.
SINGLE_CHOICE_FIELDS == {"Select"}
MULTI_CHOICE_FIELDS == {"SelectMultiple"}
CHOICE_FIELDS == SINGLE_CHOICE_FIELDS \cup MULTI_CHOICE_FIELDS
SINGLE_NUMBER_FIELDS == {"NumberInput"}
MULTI_NUMBER_FIELDS == {"NumberRange"}
HIDDEN_BINDINGS_SLUG == <<"j", "s">>

\* Field rows: slug and field_type.
FieldSlugs == {<<"c">>, <<"m">>, <<"k">>, <<"n">>, <<"t">>, <<"b">>}

FieldTypeOf(slug) ==
    CASE slug = <<"c">> -> "Select"
      [] slug = <<"m">> -> "SelectMultiple"
      [] slug = <<"k">> -> "NumberRange"
      [] slug = <<"n">> -> "NumberInput"
      [] slug = <<"t">> -> "TextInput"
      [] slug = <<"b">> -> "CheckboxInput"

\* Choice rows by primary key: the value of each. A value is unique among the
\* choices of one field, not among all Choice rows.
ChoiceIds == {1, 2, 3}

ChoiceValue(id) == CASE id = 1 -> "a" [] id = 2 -> "b" [] id = 3 -> "a"

\* FieldChoice rows: the choices of each choice field, in their order.
FieldChoices(slug) ==
    CASE slug = <<"c">> -> <<1, 2>>
      [] slug = <<"m">> -> <<1, 2>>
      [] OTHER -> <<>>

\* DataForm rows and the fields of each (DataFormField), in their order.
FormSlugs == {<<"x">>, <<"y">>, <<"z">>, <<"w">>}

FormFields(form) ==
    CASE form = <<"x">> -> <<(<<"c">>), (<<"m">>)>>
      [] form = <<"y">> -> <<(<<"k">>), (<<"n">>)>>
      [] form = <<"z">> -> <<(<<"t">>), (<<"b">>)>>
      [] form = <<"w">> -> <<(<<"b">>), (<<"t">>)>>

\* The (form, field) pairs an Answer of the submission can be for, for the forms
\* built.
AnswerKeys(forms) == {<<form, FormFields(form)[i]>> : form \in forms, i \in 1..2}

AnswerKeySeq ==
    << <<(<<"x">>), (<<"c">>)>>, <<(<<"x">>), (<<"m">>)>>,
       <<(<<"y">>), (<<"k">>)>>, <<(<<"y">>), (<<"n">>)>>,
       <<(<<"z">>), (<<"t">>)>>, <<(<<"z">>), (<<"b">>)>>,
       <<(<<"w">>), (<<"b">>)>>, <<(<<"w">>), (<<"t">>)>> >>

(***************************************************************************)
(* The store                                                               *)
(*                                                                         *)
(* db.submissions: the number of Submission rows with the slug.            *)
(* db.answers[k]: the number of Answer rows of (submission, field, form).  *)
(* db.choices[k], db.numbers[k], db.texts[k]: the AnswerChoice (choice     *)
(* primary keys), AnswerNumber and AnswerText rows of that answer, in the  *)
(* order they were created.                                                *)
(***************************************************************************)

EmptyDb(nsub, forms) ==
    [submissions |-> nsub,
     answers |-> [k \in AnswerKeys(forms) |-> 0],
     choices |-> [k \in AnswerKeys(forms) |-> <<>>],
     numbers |-> [k \in AnswerKeys(forms) |-> <<>>],
     texts |-> [k \in AnswerKeys(forms) |-> <<>>]]

\* Python truth of a cleaned value.
Truthy(val) ==
    CASE val.t = "none" -> FALSE
      [] val.t = "bool" -> val.v
      [] val.t = "str" -> val.v # ""
      [] val.t = "num" -> val.v # 0
      [] val.t = "list" -> val.v # <<>>

\* What a text column holds of a cleaned value.
ToText(val) ==
    CASE val.t = "str" -> val.v
      [] val.t = "bool" -> IF val.v THEN "True" ELSE "False"
      [] OTHER -> "None"

\* Choice.objects.filter(value__in=values): the primary keys, in their order.
ChoicesWithValueIn(values) ==
    LET ids == [i \in 1..Cardinality(ChoiceIds) |-> i]
    IN  SelectSeq(ids, LAMBDA id : \E j \in 1..Len(values) : values[j].v = ChoiceValue(id))

\* get_or_create: the number of rows afterwards, of count rows found.
GetOrCreate_AlwaysCreate(count) == count + 1

GetOrCreate(count) == IF count = 0 THEN 1 ELSE count

\* The rows "delete all previous" leaves of rows.
DeleteAll_KeepRows(rows) == rows

DeleteAll(rows) == <<>>

\* The storage model save() routes a field of the type to.
StorageModel_AllText(field_type) == "AnswerText"

StorageModel(field_type) ==
    IF field_type \in CHOICE_FIELDS THEN "AnswerChoice"
    ELSE IF field_type \in SINGLE_NUMBER_FIELDS THEN "AnswerNumber, single"
    ELSE IF field_type \in MULTI_NUMBER_FIELDS THEN "AnswerNumber, many"
    ELSE "AnswerText"

\* "answer_text.text != content": the text read from the row, a string, against
\* the cleaned value as it is, a string or not.
TextDiffers(text, content) == text # content

\* The state save() carries from field to field: the store, the form's
\* cleaned_data (has: whether the attribute exists), what was raised and the
\* answers whose AnswerText row answer_text.save() wrote again.
\* One turn of the loop of save() for the key of form.
SaveKey(st, form, key) ==
    LET slug == _field_for_db(key, FALSE)
        k == <<form, slug>>
        was_created == st.db.answers[k] = 0
        withAnswer == [st.db EXCEPT !.answers[k] = GetOrCreate(@)]
        typ == FieldTypeOf(slug)
    IN  IF slug \notin FieldSlugs
        THEN [st EXCEPT !.raised = "Field.DoesNotExist"]
        ELSE IF StorageModel(typ) = "AnswerChoice"
        THEN LET cleared == [withAnswer EXCEPT !.choices[k] = DeleteAll(@)]
             IN  IF ~st.cleaned.has
                 THEN [st EXCEPT !.db = cleared, !.raised = "AttributeError"]
                 ELSE LET val == st.cleaned.data[key]
                          wrapped == IF val.t = "str" THEN List(<<val>>) ELSE val
                      IN  [st EXCEPT
                             !.cleaned.data[key] = wrapped,
                             !.db = [cleared EXCEPT
                                       !.choices[k] = @ \o ChoicesWithValueIn(wrapped.v)]]
        ELSE IF StorageModel(typ) = "AnswerNumber, single"
        THEN IF ~st.cleaned.has
             THEN [st EXCEPT !.db = withAnswer, !.raised = "AttributeError"]
             ELSE IF Len(st.cleaned.data[key].v) # 1
             THEN [st EXCEPT !.db = withAnswer, !.raised = "AssertionError"]
             ELSE [st EXCEPT
                     !.db = [withAnswer EXCEPT
                               !.numbers[k] = DeleteAll(@) \o <<st.cleaned.data[key].v[1].v>>]]
        ELSE IF StorageModel(typ) = "AnswerNumber, many"
        THEN LET cleared == [withAnswer EXCEPT !.numbers[k] = DeleteAll(@)]
             IN  IF ~st.cleaned.has
                 THEN [st EXCEPT !.db = cleared, !.raised = "AttributeError"]
                 ELSE [st EXCEPT
                         !.db = [cleared EXCEPT
                                   !.numbers[k] =
                                      @ \o [i \in 1..Len(st.cleaned.data[key].v) |->
                                               st.cleaned.data[key].v[i].v]]]
        ELSE IF ~st.cleaned.has
             THEN [st EXCEPT !.db = withAnswer, !.raised = "AttributeError"]
             ELSE LET content == IF Truthy(st.cleaned.data[key])
                                 THEN st.cleaned.data[key] ELSE Str("")
                  IN  IF was_created \/ withAnswer.texts[k] = <<>>
                      THEN [st EXCEPT !.db = [withAnswer EXCEPT
                                                !.texts[k] = Append(@, ToText(content))]]
                      ELSE IF Len(withAnswer.texts[k]) > 1
                      THEN [st EXCEPT !.db = withAnswer,
                                      !.raised = "MultipleObjectsReturned"]
                      ELSE IF TextDiffers(Str(withAnswer.texts[k][1]), content)
                      THEN [st EXCEPT !.db = [withAnswer EXCEPT
                                                !.texts[k] = <<ToText(content)>>],
                                      !.updated = @ \cup {k}]
                      ELSE [st EXCEPT !.db = withAnswer]

\* "for key in self.fields.keys()": the turns of the loop until one raises.
RECURSIVE SaveKeys(_, _, _)
SaveKeys(st, form, keys) ==
    IF keys = <<>> \/ st.raised # ""
    THEN st
    ELSE SaveKeys(SaveKey(st, form, keys[1]), form, Tail(keys))

\* BaseDataForm.save() of the built form f (a record of frm) on store d.
SaveForm(d, f) ==
    LET got == IF f.submission
               THEN d
               ELSE [d EXCEPT !.submissions = GetOrCreate(@)]
    IN  SaveKeys([db |-> got, cleaned |-> f.cleaned, raised |-> "", updated |-> {}],
                 f.slug, f.fields)

(***************************************************************************)
(* Built forms                                                             *)
(*                                                                         *)
(* frm[form] is the form object create_form built last for the form slug:  *)
(* fields (the keys of self.fields, in order), post (what the bound data   *)
(* cleans to, valid or not), validated (is_valid() ran), cleaned           *)
(* (cleaned_data; has: whether the attribute exists) and submission        *)
(* (whether the attribute self.submission exists).                         *)
(***************************************************************************)

\* Bound of the lists of numbers tried.
MaxListLen == 2

Numbers == {1, 2}

NumberLists(n) == UNION {[1..len -> {Num(x) : x \in Numbers}] : len \in 0..n}

\* The subsequences of the values of the field's choices.
ChoiceLists(slug) ==
    LET ids == FieldChoices(slug)
    IN  {SelectSeq([i \in 1..Len(ids) |-> Str(ChoiceValue(ids[i]))],
                   LAMBDA x : x.v \in picked) : picked \in SUBSET {"a", "b"}}

\* What the bound data of a field can clean to.
CleanedValues(slug) ==
    CASE slug = <<"c">> ->
            {Str("")} \cup {Str(ChoiceValue(FieldChoices(slug)[i])) : i \in 1..2}
      [] slug = <<"m">> -> {List(xs) : xs \in ChoiceLists(slug)}
      [] slug = <<"k">> -> {List(xs) : xs \in NumberLists(MaxListLen)}
      [] slug = <<"n">> ->
            {List(<<>>), List(<<Num(1)>>), List(<<Num(2)>>), List(<<Num(1), Num(2)>>)}
      [] slug = <<"t">> -> {Str(""), Str("u"), Str("w")}
      [] slug = <<"b">> -> {Bool(TRUE), Bool(FALSE)}

\* _create_form: the keys of the form's fields, the hidden bindings field last.
FieldKeys(form) ==
    [i \in 1..Len(FormFields(form)) |-> _field_for_form(FormFields(form)[i], form)]
        \o <<_field_for_form(HIDDEN_BINDINGS_SLUG, form)>>

NoData == [has |-> FALSE, data |-> <<>>]

\* Data that does not validate, or a form that is not bound.
NoPost == [valid |-> FALSE, data |-> <<>>]

\* Valid bound data: what its two fields clean to, and the text of the hidden
\* input, which the page posts back with them.
Post(form, v1, v2) ==
    LET k1 == FieldKeys(form)[1]
        k2 == FieldKeys(form)[2]
        k3 == FieldKeys(form)[3]
    IN  [valid |-> TRUE,
         data |-> [key \in {k1, k2, k3} |->
                     IF key = k1 THEN v1 ELSE IF key = k2 THEN v2 ELSE Str("[]")]]

\* create_form
BuiltForm(form, post, d) ==
    [slug |-> form, fields |-> FieldKeys(form), post |-> post, validated |-> FALSE,
     cleaned |-> NoData, submission |-> d.submissions > 0]

\* _remove_bindings_field: self.fields without the hidden bindings key.
RemoveBindingsField_KeepAll(f) == f.fields

RemoveBindingsField(f) ==
    SelectSeq(f.fields, LAMBDA key : key # _field_for_form(HIDDEN_BINDINGS_SLUG, f.slug))

\* Django's full_clean: cleaned_data has the cleaned value of every field of
\* self.fields, and of no other key.
FullClean(fields, post) ==
    [key \in {fields[i] : i \in 1..Len(fields)} |-> post.data[key]]

(***************************************************************************)
(* get_answers                                                             *)
(***************************************************************************)

\* Answer.objects.get_answer_data: one entry per Answer row of the submission,
\* with the values of its rows as content; an answer without value rows has the
\* content [None].
RECURSIVE AnswerData(_, _)
AnswerData(d, keys) ==
    IF keys = <<>>
    THEN <<>>
    ELSE LET k == keys[1]
             rows == [i \in 1..Len(d.choices[k]) |-> Str(ChoiceValue(d.choices[k][i]))]
                     \o [i \in 1..Len(d.numbers[k]) |-> Num(d.numbers[k][i])]
                     \o [i \in 1..Len(d.texts[k]) |-> Str(d.texts[k][i])]
             entry == [field_slug |-> k[2], dataform_slug |-> k[1],
                       field_type |-> FieldTypeOf(k[2]),
                       content |-> IF rows = <<>> THEN <<None>> ELSE rows]
         IN  [i \in 1..d.answers[k] |-> entry] \o AnswerData(d, Tail(keys))

\* data[key] = val
SetItem(data, key, val) ==
    [x \in DOMAIN data \cup {key} |-> IF x = key THEN val ELSE data[x]]

\* The entry a multi-valued answer gets: the whole content.
MultiEntry(content) == List(content)

\* The loop of get_answers over the answers: [raised, data].
RECURSIVE GetAnswersLoop(_, _, _)
GetAnswersLoop(answers, for_form, acc) ==
    IF answers = <<>> \/ acc.raised # ""
    THEN acc
    ELSE LET answer == answers[1]
             answer_key == IF for_form
                           THEN _field_for_form(answer.field_slug, answer.dataform_slug)
                           ELSE answer.field_slug
             content == answer.content
             next ==
                IF content # <<>> /\ \A i \in 1..Len(content) : content[i] = None
                THEN acc
                ELSE IF answer.field_type \in MULTI_CHOICE_FIELDS \cup MULTI_NUMBER_FIELDS
                THEN [acc EXCEPT !.data = SetItem(@, answer_key, MultiEntry(content))]
                ELSE IF content = <<>>
                THEN [acc EXCEPT !.raised = "IndexError"]
                ELSE [acc EXCEPT !.data = SetItem(@, answer_key, content[1])]
         IN  GetAnswersLoop(Tail(answers), for_form, next)

\* get_answers(submission slug, for_form) on store d: [raised, data].
GetAnswers(d, for_form) ==
    IF d.submissions = 0
    THEN [raised |-> "Submission.DoesNotExist", data |-> <<>>]
    ELSE GetAnswersLoop(AnswerData(d, SelectSeq(AnswerKeySeq, LAMBDA k : k \in DOMAIN d.answers)),
                        for_form, [raised |-> "", data |-> <<>>])

(***************************************************************************)
(* The binder's calls                                                      *)
(*                                                                         *)
(* log: op (the last call), form (the form of the last call on a form),    *)
(* raised, for_form and ret (of get_answers), saves (how many save() calls *)
(* in a row succeeded on the form object, at most 2; get_answers calls in  *)
(* between do not count) and replaced (the fields, by position, whose      *)
(* answer had value rows before the last save() and has other ones now)    *)
(* and updated (the answers whose AnswerText row the last save() wrote      *)
(* again).                                                                  *)
(***************************************************************************)

ValueRows(d, form) ==
    [i \in 1..2 |-> LET k == <<form, FormFields(form)[i]>>
                    IN  <<d.choices[k], d.numbers[k], d.texts[k]>>]

NoRows == <<<<>>, <<>>, <<>>>>

DbInit ==
    \E form \in FormSlugs, nsub \in {0, 1} :
        /\ db = EmptyDb(nsub, {form})
        /\ frm = [f \in {form} |-> BuiltForm(form, NoPost, EmptyDb(nsub, {form}))]
        /\ log = [op |-> "create_form", form |-> form, raised |-> "", for_form |-> FALSE,
                  ret |-> <<>>, saves |-> 0, replaced |-> {}, updated |-> {}]

\* create_form for a new request: a new form object bound to the request's data.
CreateForm(form, post) ==
    /\ frm' = [frm EXCEPT ![form] = BuiltForm(form, post, db)]
    /\ log' = [log EXCEPT !.op = "create_form", !.form = form, !.raised = "",
                          !.ret = <<>>, !.saves = 0, !.replaced = {}, !.updated = {},
                          !.for_form = FALSE]
    /\ UNCHANGED <<km, col, db, conc, call>>

\* BaseDataForm.is_valid: the hidden bindings field goes, then Django's
\* is_valid, which cleans the bound data once.
IsValid(form) ==
    /\ frm' = [frm EXCEPT
                ![form].fields = RemoveBindingsField(frm[form]),
                ![form].validated = TRUE,
                ![form].cleaned =
                    IF frm[form].validated
                    THEN @
                    ELSE IF frm[form].post.valid
                         THEN [has |-> TRUE,
                               data |-> FullClean(RemoveBindingsField(frm[form]),
                                                  frm[form].post)]
                         ELSE NoData]
    /\ log' = [log EXCEPT !.op = "is_valid", !.form = form, !.raised = "",
                          !.ret = <<>>, !.saves = 0, !.replaced = {}, !.updated = {},
                          !.for_form = FALSE]
    /\ UNCHANGED <<km, col, db, conc, call>>

\* BaseDataForm.save
Save(form) ==
    LET st == SaveForm(db, frm[form])
    IN  /\ db' = st.db
        /\ frm' = [frm EXCEPT ![form].submission = TRUE, ![form].cleaned = st.cleaned]
        /\ log' = [log EXCEPT
                    !.op = "save", !.form = form, !.raised = st.raised, !.ret = <<>>,
                    !.saves = IF st.raised # "" THEN 0 ELSE IF @ = 0 THEN 1 ELSE 2,
                    !.replaced = {i \in 1..2 :
                                    /\ ValueRows(db, form)[i] # NoRows
                                    /\ ValueRows(st.db, form)[i] # ValueRows(db, form)[i]},
                    !.updated = st.updated, !.for_form = FALSE]
        /\ UNCHANGED <<km, col, conc, call>>

\* get_answers(submission, for_form)
GetAnswersCall(for_form) ==
    LET r == GetAnswers(db, for_form)
    IN  /\ log' = [log EXCEPT !.op = "get_answers", !.raised = r.raised,
                              !.for_form = for_form, !.ret = r.data]
        /\ UNCHANGED <<km, col, db, frm, conc, call>>

Next ==
    \/ \E form \in DOMAIN frm :
          \/ CreateForm(form, NoPost)
          \/ \E v1 \in CleanedValues(FormFields(form)[1]),
                v2 \in CleanedValues(FormFields(form)[2]) :
                CreateForm(form, Post(form, v1, v2))
          \/ IsValid(form)
          \/ Save(form)
    \/ \E for_form \in BOOLEAN : GetAnswersCall(for_form)

\* create_collection for a collection of two forms that have a field slug in
\* common: both forms are built for the one submission slug.
Collection == {<<"z">>, <<"w">>}

CollectionInit ==
    \E nsub \in {0, 1} :
        /\ db = EmptyDb(nsub, Collection)
        /\ frm = [f \in Collection |-> BuiltForm(f, NoPost, EmptyDb(nsub, Collection))]
        /\ log = [op |-> "create_form", form |-> <<"z">>, raised |-> "", for_form |-> FALSE,
                  ret |-> <<>>, saves |-> 0, replaced |-> {}, updated |-> {}]

SharedInit == CollectionInit /\ km = Idle /\ col = Idle /\ conc = Idle /\ call = Idle

SpecShared == SharedInit /\ [][Next]_vars

Init == DbInit /\ km = Idle /\ col = Idle /\ conc = Idle /\ call = Idle

Spec == Init /\ [][Next]_vars

(***************************************************************************)
(* Claims about the binder                                                 *)
(***************************************************************************)

\* The value rows of the answer of (form, slug), whatever their shape.
StoredRows(d, form, slug) ==
    LET k == <<form, slug>>
    IN  [i \in 1..Len(d.choices[k]) |-> Str(ChoiceValue(d.choices[k][i]))]
        \o [i \in 1..Len(d.numbers[k]) |-> Num(d.numbers[k][i])]
        \o [i \in 1..Len(d.texts[k]) |-> Str(d.texts[k][i])]

\* ret is the cleaned value cv in the shape get_answers documents: the sole
\* element for a single choice or a single number, the list for the
\* multi-valued fields, the text (empty for a falsy value) otherwise.
SameValue(typ, ret, cv) ==
    IF typ \in SINGLE_CHOICE_FIELDS \cup SINGLE_NUMBER_FIELDS
    THEN ret = cv.v[1]
    ELSE IF typ \in MULTI_CHOICE_FIELDS \cup MULTI_NUMBER_FIELDS
    THEN ret = cv
    ELSE ret = Str(IF Truthy(cv) THEN ToText(cv) ELSE "")

\* C1: after is_valid() succeeded and save() ran, get_answers(submission,
\* for_form=True) returns, under the mangled key of every field of the form
\* whose stored value list is not empty, the value of the form's cleaned data
\* (in the shape get_answers gives a field of that classification), and omits
\* only the fields whose stored value list is empty.
C1_RoundTrip ==
    (log.op = "get_answers" /\ log.for_form /\ log.raised = "" /\ log.saves >= 1) =>
        LET f == frm[log.form]
        IN  \A i \in 1..Len(f.fields) :
                LET key == f.fields[i]
                    slug == _field_for_db(key, FALSE)
                IN  /\ (key \in DOMAIN log.ret) <=> (StoredRows(db, f.slug, slug) # <<>>)
                    /\ key \in DOMAIN log.ret =>
                          SameValue(FieldTypeOf(slug), log.ret[key], f.cleaned.data[key])

\* C2: a second save() in a row with the same cleaned data leaves the store as
\* the first one left it: one Answer row per (submission, field, form) and the
\* same choice, number and text rows.
C2_SaveIdempotent ==
    [][(log.op \in {"save", "get_answers"} /\ log.saves >= 1
            /\ log'.op = "save" /\ log'.raised = "")
        => (db' = db /\ \A k \in DOMAIN db'.answers : db'.answers[k] <= 1)]_vars

\* save() succeeded twice in a row on a form whose two answers hold value rows.
C2_Witness ==
    /\ log.op = "save"
    /\ log.saves = 2
    /\ \A i \in 1..2 : ValueRows(db, log.form)[i] # NoRows

\* The choices of the field whose value is selected, in primary key order.
Selected(slug, values) ==
    SelectSeq([i \in 1..Cardinality(ChoiceIds) |-> i],
              LAMBDA id : /\ \E j \in 1..Len(FieldChoices(slug)) : FieldChoices(slug)[j] = id
                          /\ \E j \in 1..Len(values) : values[j].v = ChoiceValue(id))

\* C3: after a save(), whatever was stored by the saves before it, the stored
\* choice references of a choice field's answer are exactly the choices selected
\* in the cleaned data of this save, one per selected value.
C3_ChoiceReplace ==
    (log.op = "save" /\ log.raised = "") =>
        LET f == frm[log.form]
        IN  \A i \in 1..Len(f.fields) :
                LET key == f.fields[i]
                    slug == _field_for_db(key, FALSE)
                IN  FieldTypeOf(slug) \in CHOICE_FIELDS =>
                        db.choices[<<f.slug, slug>>] = Selected(slug, f.cleaned.data[key].v)

\* C4: after a save(), whatever list was stored by the saves before it, the
\* stored Number rows of a multi-number field's answer are exactly the elements
\* of the cleaned list of this save.
C4_MultiNumberReplace ==
    (log.op = "save" /\ log.raised = "") =>
        LET f == frm[log.form]
        IN  \A i \in 1..Len(f.fields) :
                LET key == f.fields[i]
                    slug == _field_for_db(key, FALSE)
                    cv == f.cleaned.data[key].v
                IN  FieldTypeOf(slug) \in MULTI_NUMBER_FIELDS =>
                        db.numbers[<<f.slug, slug>>] = [j \in 1..Len(cv) |-> cv[j].v]

\* A save() found numbers stored for the multi-number field and left the one
\* number of its cleaned list.
C4_Witness ==
    /\ log.op = "save"
    /\ log.raised = ""
    /\ log.form = <<"y">>
    /\ 1 \in log.replaced
    /\ db.numbers[<<(<<"y">>), (<<"k">>)>>] = <<2>>

\* C10: save() on a built form whose is_valid() was not called raises and
\* leaves the Answer rows and their value rows as they were.
C10_SaveRequiresIsValid ==
    [][(log'.op = "save" /\ ~frm[log'.form].validated)
        => /\ log'.raised # ""
           /\ db'.answers = db.answers
           /\ db'.choices = db.choices
           /\ db'.numbers = db.numbers
           /\ db'.texts = db.texts]_vars

\* C11: whatever save() calls were made on the forms of a collection that share
\* one submission slug, with or without a Submission stored before, there is
\* exactly one Submission row with the slug once a save() ran, and no Answer
\* row exists without it.
C11_OneSubmission ==
    /\ db.submissions <= 1
    /\ (log.op = "save" \/ \E k \in DOMAIN db.answers : db.answers[k] > 0) => db.submissions = 1

\* Both forms of the collection were saved: every answer of both has its row.
C11_Witness ==
    /\ log.op = "save"
    /\ log.raised = ""
    /\ DOMAIN frm = Collection
    /\ \A k \in DOMAIN db.answers : db.answers[k] = 1

\* C13: once is_valid() was called on a built form, its fields do not have the
\* key of the hidden bindings field; the cleaned data never has that key; and
\* save() never looks up a Field row for the hidden bindings slug, so that it
\* creates no Answer for it.
C13_HiddenFieldNeverHandled ==
    /\ \A form \in DOMAIN frm :
          LET hidden == _field_for_form(HIDDEN_BINDINGS_SLUG, form)
              f == frm[form]
          IN  /\ f.validated => \A i \in 1..Len(f.fields) : f.fields[i] # hidden
              /\ f.cleaned.has => hidden \notin DOMAIN f.cleaned.data
    /\ log.op = "save" => log.raised # "Field.DoesNotExist"

\* A form that was built with the hidden bindings field was validated and saved.
C13_Witness ==
    /\ log.op = "save"
    /\ log.raised = ""
    /\ log.saves = 1
    /\ Len(FieldKeys(log.form)) = 3
    /\ Len(frm[log.form].fields) = 2
    /\ DOMAIN frm[log.form].cleaned.data = {FieldKeys(log.form)[1], FieldKeys(log.form)[2]}

\* C15: whatever save() calls were made, the value rows of every Answer are of
\* the one shape of its field's classification: choice references for a choice
\* field, Number rows for a single- or multi-number field, Text rows for every
\* other field.
C15_StorageRouting ==
    \A k \in DOMAIN db.answers :
        LET typ == FieldTypeOf(k[2])
        IN  IF typ \in SINGLE_CHOICE_FIELDS \cup MULTI_CHOICE_FIELDS
            THEN db.numbers[k] = <<>> /\ db.texts[k] = <<>>
            ELSE IF typ \in SINGLE_NUMBER_FIELDS \cup MULTI_NUMBER_FIELDS
            THEN db.choices[k] = <<>> /\ db.texts[k] = <<>>
            ELSE db.choices[k] = <<>> /\ db.numbers[k] = <<>>

\* A form of two choice fields was saved and both answers hold choice rows.
C15_Witness ==
    /\ log.op = "save"
    /\ log.raised = ""
    /\ log.form = <<"x">>
    /\ \A k \in DOMAIN db.answers : db.choices[k] # <<>>

\* C16: save() of one form of a collection leaves the Answer rows and value
\* rows of the other forms as they were, and get_answers(for_form=True) returns
\* the stored values of a field slug two forms have in common under two
\* distinct keys, each form's value under the key of that form.
C16_NoCollision ==
    [][/\ log'.op = "save" =>
            \A k \in DOMAIN db.answers :
                k[1] # log'.form =>
                    /\ db'.answers[k] = db.answers[k]
                    /\ db'.choices[k] = db.choices[k]
                    /\ db'.numbers[k] = db.numbers[k]
                    /\ db'.texts[k] = db.texts[k]
       /\ (log'.op = "get_answers" /\ log'.for_form /\ log'.raised = "") =>
            \A k1 \in DOMAIN db.answers, k2 \in DOMAIN db.answers :
                (k1[1] # k2[1] /\ k1[2] = k2[2]
                    /\ StoredRows(db, k1[1], k1[2]) # <<>>
                    /\ StoredRows(db, k2[1], k2[2]) # <<>>) =>
                    LET key1 == _field_for_form(k1[2], k1[1])
                        key2 == _field_for_form(k2[2], k2[1])
                    IN  /\ key1 # key2
                        /\ key1 \in DOMAIN log'.ret
                        /\ key2 \in DOMAIN log'.ret
                        /\ log'.ret[key1] = StoredRows(db, k1[1], k1[2])[1]
                        /\ log'.ret[key2] = StoredRows(db, k2[1], k2[2])[1]]_vars

\* get_answers(for_form=True) was called with two different texts stored for
\* the text field the two forms have in common.
C16_Witness ==
    /\ log.op = "get_answers"
    /\ log.for_form
    /\ DOMAIN frm = Collection
    /\ db.texts[<<(<<"z">>), (<<"t">>)>>] = <<"u">>
    /\ db.texts[<<(<<"w">>), (<<"t">>)>>] = <<"w">>

\* C18: after a save() that succeeded, the Answer of every text/default field
\* has exactly one Text row, holding the cleaned value, or the empty string for
\* a falsy one; and a save() that finds that content stored does not write the
\* row again.
C18_OneTextRow ==
    [][(log'.op = "save" /\ log'.raised = "") =>
            LET f == frm'[log'.form]
            IN  \A i \in 1..Len(f.fields) :
                    LET key == f.fields[i]
                        slug == _field_for_db(key, FALSE)
                        k == <<f.slug, slug>>
                        cv == f.cleaned.data[key]
                    IN  FieldTypeOf(slug) \notin (SINGLE_CHOICE_FIELDS \cup MULTI_CHOICE_FIELDS
                            \cup SINGLE_NUMBER_FIELDS \cup MULTI_NUMBER_FIELDS) =>
                            /\ db'.texts[k] = <<IF Truthy(cv) THEN ToText(cv) ELSE "">>
                            /\ db.texts[k] = db'.texts[k] => k \notin log'.updated]_vars

\* C19: save() of a single-number field whose cleaned list does not have exactly
\* one element raises and stores nothing of it; with one element it leaves
\* exactly one Number row, that element, whatever numbers were stored before.
C19_SingleNumber ==
    [][(log'.op = "save" /\ frm[log'.form].cleaned.has) =>
            LET f == frm[log'.form]
            IN  \A i \in 1..Len(f.fields) :
                    LET key == f.fields[i]
                        slug == _field_for_db(key, FALSE)
                        k == <<f.slug, slug>>
                        cv == f.cleaned.data[key].v
                    IN  FieldTypeOf(slug) \in SINGLE_NUMBER_FIELDS =>
                            IF Len(cv) # 1
                            THEN /\ log'.raised = "AssertionError"
                                 /\ db'.numbers[k] = db.numbers[k]
                            ELSE /\ log'.raised = ""
                                 /\ db'.numbers[k] = <<cv[1].v>>]_vars

\* A save() found a number stored for the single-number field and left the
\* other number, the one of its cleaned list.
C19_Witness ==
    /\ log.op = "save"
    /\ log.raised = ""
    /\ log.form = <<"y">>
    /\ 2 \in log.replaced
    /\ db.numbers[<<(<<"y">>), (<<"n">>)>>] = <<2>>

\* C23: a save() that raises leaves the store as it was before the call: no
\* Submission, Answer or value row created or deleted.
C23_SaveAllOrNothing ==
    [][(log'.op = "save" /\ log'.raised # "") => db' = db]_vars

(***************************************************************************)
(* Two requests saving the same answer                                     *)
(*                                                                         *)
(* The multi-number turn of save()'s loop, one store operation at a time:  *)
(* the query for the previous rows, one delete per row it returned, one    *)
(* create per cleaned number. conc.rows are the AnswerNumber rows of the   *)
(* answer (id, number); conc.req[p] is request p: where it is (pc), its    *)
(* cleaned list, the rows its query returned and are still to delete, and  *)
(* how many numbers it has created.                                        *)
(***************************************************************************)

Requests == {1, 2}

\* The stored numbers in primary key order.
RECURSIVE RowList(_)
RowList(rows) ==
    IF rows = {}
    THEN <<>>
    ELSE LET r == CHOOSE x \in rows : \A y \in rows : x.id <= y.id
         IN  <<r.number>> \o RowList(rows \ {r})

ConcInit ==
    \E stored \in NumberLists(1) :
        \E c1 \in NumberLists(MaxListLen), c2 \in NumberLists(MaxListLen) :
            conc = [rows |-> {[id |-> i, number |-> stored[i].v] : i \in 1..Len(stored)},
                    next_id |-> Len(stored) + 1,
                    req |-> [p \in Requests |->
                                [pc |-> "start", cleaned |-> IF p = 1 THEN c1 ELSE c2,
                                 todo |-> {}, created |-> 0]]]

\* AnswerNumber.objects.filter(answer=answer): the rows there are now.
QueryRows(p) ==
    /\ conc.req[p].pc = "start"
    /\ conc' = [conc EXCEPT !.req[p].pc = "delete",
                            !.req[p].todo = {r.id : r \in conc.rows}]
    /\ UNCHANGED <<km, col, db, frm, log, call>>

\* answer_num.delete() for one of the rows the query returned.
DeleteRow(p) ==
    /\ conc.req[p].pc = "delete"
    /\ conc.req[p].todo # {}
    /\ LET id == CHOOSE x \in conc.req[p].todo : \A y \in conc.req[p].todo : x <= y
       IN  conc' = [conc EXCEPT !.rows = {r \in @ : r.id # id},
                                !.req[p].todo = @ \ {id}]
    /\ UNCHANGED <<km, col, db, frm, log, call>>

\* answer.answernumber_set.create(number=num) for the next cleaned number; the
\* loop over the cleaned list ends when there is none.
CreateRow(p) ==
    /\ conc.req[p].pc = "delete"
    /\ conc.req[p].todo = {}
    /\ IF conc.req[p].created < Len(conc.req[p].cleaned)
       THEN conc' = [conc EXCEPT
                        !.rows = @ \cup {[id |-> conc.next_id,
                                          number |-> conc.req[p].cleaned[conc.req[p].created + 1].v]},
                        !.next_id = @ + 1,
                        !.req[p].created = @ + 1]
       ELSE conc' = [conc EXCEPT !.req[p].pc = "done"]
    /\ UNCHANGED <<km, col, db, frm, log, call>>

ConcNext == \E p \in Requests : QueryRows(p) \/ DeleteRow(p) \/ CreateRow(p)

ConcSpecInit ==
    ConcInit /\ km = Idle /\ col = Idle /\ db = Idle /\ frm = Idle /\ log = Idle /\ call = Idle

SpecConc == ConcSpecInit /\ [][ConcNext]_vars

\* C9: when both requests have saved, the stored numbers are the cleaned list of
\* one of the two, not a union or a mixture of both.
C9_LastWriteWins ==
    (\A p \in Requests : conc.req[p].pc = "done") =>
        \E p \in Requests :
            RowList(conc.rows) = [i \in 1..Len(conc.req[p].cleaned) |-> conc.req[p].cleaned[i].v]

(***************************************************************************)
(* get_answers on given answer data                                        *)
(*                                                                         *)
(* call.answers is what Answer.objects.get_answer_data returned: one entry *)
(* per Answer row, its content the list of its values, which is empty, or  *)
(* holds only None, for an answer without a value.                         *)
(***************************************************************************)

\* Bound of the answers of the submission.
MaxAnswers == 2

AnsweredSlugs == {<<"c">>, <<"m">>, <<"n">>, <<"k">>, <<"t">>}

\* The value lists tried for a field: without a value, with one, and with two.
Contents(slug) ==
    LET vals == CASE slug \in {<<"c">>, <<"m">>} -> <<Str("a"), Str("b")>>
                  [] slug \in {<<"n">>, <<"k">>} -> <<Num(1), Num(2)>>
                  [] OTHER -> <<Str("u"), Str("w")>>
    IN  {<<>>, <<None>>, <<None, None>>, <<vals[1]>>, vals}

AnswerEntries ==
    {[field_slug |-> slug, dataform_slug |-> <<"x">>, field_type |-> FieldTypeOf(slug),
      content |-> content] : slug \in AnsweredSlugs, content \in UNION {Contents(x) : x \in AnsweredSlugs}}

\* The answers of one submission: one entry per field, at most MaxAnswers.
AnswerLists ==
    {as \in UNION {[1..n -> AnswerEntries] : n \in 1..MaxAnswers} :
        /\ \A i \in 1..Len(as) : as[i].content \in Contents(as[i].field_slug)
        /\ \A i \in 1..Len(as), j \in 1..Len(as) :
              i # j => as[i].field_slug # as[j].field_slug}

AnswersInit ==
    \E as \in AnswerLists, for_form \in BOOLEAN :
        call = [pc |-> "start", answers |-> as, for_form |-> for_form]

\* get_answers(submission, for_form) from line 600 on.
GetAnswersApply ==
    /\ call.pc = "start"
    /\ LET r == GetAnswersLoop(call.answers, call.for_form, [raised |-> "", data |-> <<>>])
       IN  call' = [pc |-> "done", answers |-> call.answers, for_form |-> call.for_form,
                    raised |-> r.raised, ret |-> r.data]
    /\ UNCHANGED <<km, col, db, frm, log, conc>>

AnswersNext == GetAnswersApply

AnswersSpecInit ==
    /\ AnswersInit
    /\ km = Idle /\ col = Idle /\ db = Idle /\ frm = Idle /\ log = Idle /\ conc = Idle

SpecAnswers == AnswersSpecInit /\ [][AnswersNext]_vars

\* C12: get_answers does not fail; the mapping it returns has no entry for an
\* answer whose value list is empty or holds only nulls, and for every other
\* answer the whole list (multi-choice, multi-number) or the sole element.
C12_OmitsEmptyAnswers ==
    call.pc = "done" =>
        /\ call.raised = ""
        /\ \A i \in 1..Len(call.answers) :
              LET a == call.answers[i]
                  key == IF call.for_form
                         THEN _field_for_form(a.field_slug, a.dataform_slug)
                         ELSE a.field_slug
              IN  IF \A j \in 1..Len(a.content) : a.content[j] = None
                  THEN key \notin DOMAIN call.ret
                  ELSE /\ key \in DOMAIN call.ret
                       /\ call.ret[key] =
                             IF a.field_type \in MULTI_CHOICE_FIELDS \cup MULTI_NUMBER_FIELDS
                             THEN List(a.content)
                             ELSE a.content[1]

(***************************************************************************)
(* get_bindings on given Binding rows                                      *)
(*                                                                         *)
(* A Binding row: child (a field slug), parent_field (a field slug or      *)
(* None) and parent_choice (a FieldChoice: field slug and choice value, or *)
(* None).                                                                  *)
(***************************************************************************)

\* Bound of the Binding rows of the form.
MaxBindings == 2

BindingRows ==
    [child : {<<"t">>, <<"m">>},
     parent_field : {None, Str(<<"b">>)},
     parent_choice : {None, [field |-> <<"c">>, value |-> "a"]}]

BindingsInit ==
    \E form \in {<<"x">>, <<"z">>} :
        \E rows \in UNION {[1..n -> BindingRows] : n \in 1..MaxBindings} :
            call = [pc |-> "start", form |-> form, bindings |-> rows]

\* The loop of get_bindings over the bindings: [raised, data].
RECURSIVE GetBindingsLoop(_, _, _)
GetBindingsLoop(bindings, form, acc) ==
    IF bindings = <<>> \/ acc.raised # ""
    THEN acc
    ELSE LET binding == bindings[1]
             child == _field_for_form(binding.child, form)
             next ==
                IF binding.parent_field # None
                THEN [acc EXCEPT !.data = Append(@,
                        <<_field_for_form(binding.parent_field.v, form), child>>)]
                ELSE IF binding.parent_choice # None
                THEN [acc EXCEPT !.data = Append(@,
                        <<_field_for_form(binding.parent_choice.field, form),
                          binding.parent_choice.value, child>>)]
                ELSE [acc EXCEPT !.raised = "FieldError"]
         IN  GetBindingsLoop(Tail(bindings), form, next)

\* get_bindings(form)
GetBindingsApply ==
    /\ call.pc = "start"
    /\ LET r == GetBindingsLoop(call.bindings, call.form, [raised |-> "", data |-> <<>>])
       IN  call' = [pc |-> "done", form |-> call.form, bindings |-> call.bindings,
                    raised |-> r.raised, ret |-> r.data]
    /\ UNCHANGED <<km, col, db, frm, log, conc>>

BindingsNext == GetBindingsApply

BindingsSpecInit ==
    /\ BindingsInit
    /\ km = Idle /\ col = Idle /\ db = Idle /\ frm = Idle /\ log = Idle /\ conc = Idle

SpecBindings == BindingsSpecInit /\ [][BindingsNext]_vars

\* C14: get_bindings raises the configuration error when one of the form's
\* Bindings has neither or both of parent_field and parent_choice set, and
\* returns one tuple per Binding when each has exactly one of them set.
C14_BindingWellFormed ==
    call.pc = "done" =>
        IF \A i \in 1..Len(call.bindings) :
              (call.bindings[i].parent_field # None) # (call.bindings[i].parent_choice # None)
        THEN call.raised = "" /\ Len(call.ret) = Len(call.bindings)
        ELSE call.raised = "FieldError"

====
